---------------------------- MODULE Spec2Model ----------------------------
(***************************************************************************)
(* Model of compare_data.py: ImageComparator loads two grayscale images,   *)
(* applies six geometric transforms to the original, scores each against   *)
(* the transformed image and reports the best hypothesis.                  *)
(*                                                                         *)
(* A pixel matrix is a sequence of rows, each a sequence of pixels         *)
(* (1-based here, 0-based in numpy).  A similarity is the float            *)
(* (matches / total) * 100, kept as the reduced fraction num/den so that   *)
(* no rounding is introduced by the model; for the totals and thresholds   *)
(* used here the float comparisons of the code agree with the exact ones.  *)
(*                                                                         *)
(* The module also models main() of compare_data.py (files that do not     *)
(* load, the exit status), visualize_difference, and parse_value and       *)
(* read_matrix of tc_sdk/pixels2gray.py, where a string is a sequence of   *)
(* one-character strings.                                                  *)
(***************************************************************************)
EXTENDS Integers, Sequences, FiniteSets, TLC

VARIABLES
    original_path,     \* the matrix the file at original_path decodes to
    transformed_path,  \* the matrix the file at transformed_path decodes to
    threshold,         \* self.threshold, in hundredths (95 is 0.95)
    original_img,      \* self.original_img, None before load_images
    transformed_img,   \* self.transformed_img, None before load_images
    pc,                \* position of the run inside compare()
    idx,               \* index of the next entry of transformations to try
    best_match,        \* local best_match of detect_transformation
    best_similarity,   \* local best_similarity of detect_transformation
    results,           \* local results of detect_transformation
    printed,           \* the status column printed for each hypothesis
    report,            \* what compare() printed as DETECTION RESULT
    prev,              \* verdict of the preceding run on the same files
    diff,              \* the statistics visualize_difference printed
    diff_file,         \* the difference map visualize_difference saved
    exit_code,         \* the status main() passed to sys.exit
    work,              \* the array a chain of transforms has produced
    applied,           \* the kinds of the transforms of that chain
    line,              \* the tokens of the line of input_file read_matrix splits
    data,              \* the list data of read_matrix
    warnings,          \* the warnings read_matrix printed
    width,             \* self.width of the MatrixConverter
    height             \* self.height of the MatrixConverter

vars == <<original_path, transformed_path, threshold, original_img,
          transformed_img, pc, idx, best_match, best_similarity, results,
          printed, report, prev, diff, diff_file, exit_code, work, applied,
          line, data, warnings, width, height>>

\* What a step inside detect_transformation or load_images leaves alone.
outside_detect ==
    <<diff, diff_file, exit_code, work, applied, line, data, warnings, width,
      height>>
\* What a step of the comparator leaves alone.
outside_comparator == <<work, applied, line, data, warnings, width, height>>

\* None, for a field that holds a string otherwise.
None == "None"
\* None, for a field that holds an array, a list or a tuple otherwise.
Nil == <<>>
\* A local that is not bound yet, where a float is held otherwise.
Unbound == [num |-> 0, den |-> 0]

(***************************** bounds **************************************)
\* Largest gray level of the small images.
MaxPix == 1
\* Largest number of hypotheses whose try body raises in one sweep.
MaxFaults == 1
\* Largest number of transforms applied one after the other to one array.
MaxChain == 2
\* Largest number of characters of a token of the input file.
MaxTokLen == 4

\* Gray levels the small images are drawn from.
Pixel == 0..MaxPix
\* Thresholds the comparator is constructed with, in hundredths.
Thresholds == {0, 95, 100}

\* Shapes (height, width) of the small images: one pixel, one row, one
\* column, square.
Shapes == {<<1, 1>>, <<1, 2>>, <<2, 1>>, <<2, 2>>}
SmallImages == UNION {[1..s[1] -> [1..s[2] -> Pixel]] : s \in Shapes}
\* The 4x4 image with sixteen different gray levels, and the images a
\* device under test returns for it: turned clockwise, turned
\* counter-clockwise, turned upside down, mirrored left-right and mirrored
\* top-bottom.  No two of the six are equal.
Scenario ==
    <<<<1, 2, 3, 4>>, <<5, 6, 7, 8>>, <<9, 10, 11, 12>>, <<13, 14, 15, 16>>>>
ScenarioCW ==
    <<<<13, 9, 5, 1>>, <<14, 10, 6, 2>>, <<15, 11, 7, 3>>, <<16, 12, 8, 4>>>>
ScenarioCCW ==
    <<<<4, 8, 12, 16>>, <<3, 7, 11, 15>>, <<2, 6, 10, 14>>, <<1, 5, 9, 13>>>>
Scenario180 ==
    <<<<16, 15, 14, 13>>, <<12, 11, 10, 9>>, <<8, 7, 6, 5>>, <<4, 3, 2, 1>>>>
ScenarioMirrorH ==
    <<<<4, 3, 2, 1>>, <<8, 7, 6, 5>>, <<12, 11, 10, 9>>, <<16, 15, 14, 13>>>>
ScenarioMirrorV ==
    <<<<13, 14, 15, 16>>, <<9, 10, 11, 12>>, <<5, 6, 7, 8>>, <<1, 2, 3, 4>>>>
ScenarioImages ==
    {Scenario, ScenarioCW, ScenarioCCW, Scenario180, ScenarioMirrorH, ScenarioMirrorV}
\* The image files the comparator is pointed at.
Matrices == SmallImages \cup ScenarioImages
\* A file that Image.open cannot open or decode: it yields no array.
Unreadable == <<<<>>>>

(***************************** numpy helpers *******************************)
Height(img) == Len(img)
Width(img) == Len(img[1])
shape(img) == <<Height(img), Width(img)>>
size(img) == Height(img) * Width(img)

transpose(img) ==
    [i \in 1..Width(img) |-> [j \in 1..Height(img) |-> img[j][i]]]

fliplr(img) ==
    [i \in 1..Height(img) |-> [j \in 1..Width(img) |-> img[i][Width(img) + 1 - j]]]

flipud(img) ==
    [i \in 1..Height(img) |-> img[Height(img) + 1 - i]]

\* np.rot90(m, k) in the plane of the two axes: k is taken modulo 4;
\* 1 is transpose(fliplr(m)), 2 is flipud(fliplr(m)), 3 is fliplr(transpose(m)).
rot90(img, k) ==
    LET kk == k % 4 IN
    CASE kk = 0 -> img
      [] kk = 1 -> transpose(fliplr(img))
      [] kk = 2 -> flipud(fliplr(img))
      [] kk = 3 -> fliplr(transpose(img))

(***************************** similarity **********************************)
RECURSIVE GCD(_, _)
GCD(a, b) == IF b = 0 THEN a ELSE GCD(b, a % b)

\* The float n / d as a reduced fraction (d > 0).
Frac(n, d) == LET g == GCD(n, d) IN [num |-> n \div g, den |-> d \div g]
Zero == Frac(0, 1)
Hundred == Frac(100, 1)

Gt(a, b) == a.num * b.den > b.num * a.den
Ge(a, b) == a.num * b.den >= b.num * a.den

\* Mutant: gray levels one apart count as equal.
eq_mask_tolerant(img1, img2) ==
    [i \in 1..Height(img1) |-> [j \in 1..Width(img1) |->
        IF img1[i][j] - img2[i][j] \in {-1, 0, 1} THEN 1 ELSE 0]]

\* img1 == img2, elementwise, for arrays of one shape.
eq_mask(img1, img2) ==
    [i \in 1..Height(img1) |-> [j \in 1..Width(img1) |->
        IF img1[i][j] = img2[i][j] THEN 1 ELSE 0]]

RECURSIVE SumSeq(_)
SumSeq(s) == IF s = <<>> THEN 0 ELSE Head(s) + SumSeq(Tail(s))

\* np.sum over the whole array.
np_sum(arr) == SumSeq([i \in 1..Height(arr) |-> SumSeq(arr[i])])

\* An array read row by row as one sequence.
RECURSIVE ravel(_)
ravel(arr) == IF arr = <<>> THEN <<>> ELSE Head(arr) \o ravel(Tail(arr))

\* Mutant: the guard compares the number of pixels, not the shape, and the
\* pixels are compared in reading order.
calculate_similarity_by_size(img1, img2) ==
    IF size(img1) # size(img2)
    THEN Zero
    ELSE Frac(np_sum(eq_mask(<<ravel(img1)>>, <<ravel(img2)>>)) * 100, size(img1))

\* Mutant: the differing pixels are counted instead of the equal ones.
calculate_similarity_of_mismatches(img1, img2) ==
    IF shape(img1) # shape(img2)
    THEN Zero
    ELSE Frac((size(img1) - np_sum(eq_mask(img1, img2))) * 100, size(img1))

\* Mutant: the ratio is returned without the factor 100.
calculate_similarity_ratio(img1, img2) ==
    IF shape(img1) # shape(img2)
    THEN Zero
    ELSE Frac(np_sum(eq_mask(img1, img2)), size(img1))

calculate_similarity(img1, img2) ==
    IF shape(img1) # shape(img2)
    THEN Zero
    ELSE LET matches == np_sum(eq_mask(img1, img2))
             total == size(img1)
         IN  Frac(matches * 100, total)

(***************************** transforms **********************************)
\* Mutant: the clockwise turn turns counter-clockwise.
apply_rotate_cw_counter(img) == rot90(img, 1)
apply_rotate_cw(img) == rot90(img, -1)
\* Mutant: the counter-clockwise turn turns clockwise.
apply_rotate_ccw_clockwise(img) == rot90(img, -1)
apply_rotate_ccw(img) == rot90(img, 1)
apply_rotate_180(img) == rot90(img, 2)
apply_mirror_h(img) == fliplr(img)
\* Mutant: the vertical mirror flips the wrong axis.
apply_mirror_v_lr(img) == fliplr(img)
apply_mirror_v(img) == flipud(img)

\* Mutant: the half turn is tried before the quarter turns.
transformations_half_turn_first ==
    <<"IDENTICAL", "ROTATE_180", "ROTATE_CW", "ROTATE_CCW", "MIRROR_H", "MIRROR_V">>

\* The list of (TransformType, function) pairs, by TransformType.
transformations ==
    <<"IDENTICAL", "ROTATE_CW", "ROTATE_CCW", "ROTATE_180", "MIRROR_H", "MIRROR_V">>

trans_func(trans_type, x) ==
    CASE trans_type = "IDENTICAL" -> x
      [] trans_type = "ROTATE_CW" -> apply_rotate_cw(x)
      [] trans_type = "ROTATE_CCW" -> apply_rotate_ccw(x)
      [] trans_type = "ROTATE_180" -> apply_rotate_180(x)
      [] trans_type = "MIRROR_H" -> apply_mirror_h(x)
      [] trans_type = "MIRROR_V" -> apply_mirror_v(x)

(***************************** the run *************************************)
\* After ImageComparator.__init__: paths and threshold set, no image loaded.
Init ==
    /\ original_path \in Matrices
    /\ transformed_path \in Matrices
    /\ threshold \in Thresholds
    /\ original_img = Nil
    /\ transformed_img = Nil
    /\ pc = "constructed"
    /\ idx = 0
    /\ best_match = None
    /\ best_similarity = Unbound
    /\ results = <<>>
    /\ printed = <<>>
    /\ report = Nil
    /\ prev = Nil
    /\ diff = Nil
    /\ diff_file = Nil
    /\ exit_code = Nil
    /\ work = Nil
    /\ applied = <<>>
    /\ line = <<>>
    /\ data = <<>>
    /\ warnings = <<>>
    /\ width = 0
    /\ height = 0

\* Mutant: a file that cannot be loaded is reported and the run goes on.
load_images_raises_and_goes_on ==
    /\ pc = "constructed"
    /\ UNCHANGED outside_detect
    /\ original_path = Unreadable \/ transformed_path = Unreadable
    /\ original_img' = original_path
    /\ transformed_img' = transformed_path
    /\ pc' = "loaded"
    /\ UNCHANGED <<original_path, transformed_path, threshold, idx, best_match,
                   best_similarity, results, printed, report, prev>>

\* load_images when Image.open or convert raises for one of the files:
\* FileNotFoundError leaves load_images and compare.  The original is
\* loaded first, so it is held when only the transformed file fails.
load_images_raises ==
    /\ pc = "constructed"
    /\ UNCHANGED outside_detect
    /\ original_path = Unreadable \/ transformed_path = Unreadable
    /\ original_img' = IF original_path = Unreadable THEN Nil ELSE original_path
    /\ transformed_img' = Nil
    /\ pc' = "raised"
    /\ UNCHANGED <<original_path, transformed_path, threshold, idx, best_match,
                   best_similarity, results, printed, report, prev>>

load_images ==
    /\ pc = "constructed"
    /\ UNCHANGED outside_detect
    /\ original_path # Unreadable
    /\ transformed_path # Unreadable
    /\ original_img' = original_path
    /\ transformed_img' = transformed_path
    /\ pc' = "loaded"
    /\ UNCHANGED <<original_path, transformed_path, threshold, idx, best_match,
                   best_similarity, results, printed, report, prev>>

\* Mutant: the running best starts below every score.
initial_best_below == Frac(-1, 1)

\* best_similarity = 0.0
initial_best == Zero

\* detect_transformation up to the loop: the running best and the results.
detect_begin ==
    /\ pc = "loaded"
    /\ UNCHANGED outside_detect
    /\ best_match' = "UNKNOWN"
    /\ best_similarity' = initial_best
    /\ results' = <<>>
    /\ printed' = <<>>
    /\ idx' = 1
    /\ pc' = "sweep"
    /\ UNCHANGED <<original_path, transformed_path, threshold, original_img,
                   transformed_img, report, prev>>

\* The status printed for a scored hypothesis.
status_of(similarity, thr) ==
    IF Ge(similarity, Frac(thr * 100, 100)) THEN "MATCH"
    ELSE IF Gt(similarity, Frac(50, 1)) THEN "PARTIAL"
    ELSE "NO MATCH"

\* Mutant: a tie replaces the running best too.
is_better_or_equal(similarity, best) == Ge(similarity, best)

\* The comparison that replaces the running best.
is_better(similarity, best) == Gt(similarity, best)

\* Mutant: only a hypothesis that reaches the threshold replaces the best.
try_hypothesis_gated ==
    /\ pc = "sweep"
    /\ UNCHANGED outside_detect
    /\ idx <= Len(transformations)
    /\ LET trans_type == transformations[idx]
           transformed == trans_func(trans_type, original_img)
           similarity == calculate_similarity(transformed, transformed_img)
       IN  /\ results' = Append(results, <<trans_type, similarity>>)
           /\ printed' = Append(printed, status_of(similarity, threshold))
           /\ IF /\ status_of(similarity, threshold) = "MATCH"
                 /\ is_better(similarity, best_similarity)
              THEN /\ best_similarity' = similarity
                   /\ best_match' = trans_type
              ELSE UNCHANGED <<best_similarity, best_match>>
    /\ idx' = idx + 1
    /\ UNCHANGED <<original_path, transformed_path, threshold, original_img,
                   transformed_img, pc, report, prev>>

\* Mutant: the transformed array is kept in self.original_img.
try_hypothesis_in_place ==
    /\ pc = "sweep"
    /\ UNCHANGED outside_detect
    /\ idx <= Len(transformations)
    /\ LET trans_type == transformations[idx]
           transformed == trans_func(trans_type, original_img)
           similarity == calculate_similarity(transformed, transformed_img)
       IN  /\ results' = Append(results, <<trans_type, similarity>>)
           /\ printed' = Append(printed, status_of(similarity, threshold))
           /\ original_img' = transformed
           /\ IF is_better(similarity, best_similarity)
              THEN /\ best_similarity' = similarity
                   /\ best_match' = trans_type
              ELSE UNCHANGED <<best_similarity, best_match>>
    /\ idx' = idx + 1
    /\ UNCHANGED <<original_path, transformed_path, threshold,
                   transformed_img, pc, report, prev>>

\* One iteration of the loop whose try body completes.
try_hypothesis ==
    /\ pc = "sweep"
    /\ UNCHANGED outside_detect
    /\ idx <= Len(transformations)
    /\ LET trans_type == transformations[idx]
           transformed == trans_func(trans_type, original_img)
           similarity == calculate_similarity(transformed, transformed_img)
       IN  /\ results' = Append(results, <<trans_type, similarity>>)
           /\ printed' = Append(printed, status_of(similarity, threshold))
           /\ IF is_better(similarity, best_similarity)
              THEN /\ best_similarity' = similarity
                   /\ best_match' = trans_type
              ELSE UNCHANGED <<best_similarity, best_match>>
    /\ idx' = idx + 1
    /\ UNCHANGED <<original_path, transformed_path, threshold, original_img,
                   transformed_img, pc, report, prev>>

\* Mutant: a hypothesis that raises ends the loop.
hypothesis_raises_and_breaks ==
    /\ pc = "sweep"
    /\ UNCHANGED outside_detect
    /\ idx <= Len(transformations)
    /\ (idx - 1) - Len(results) < MaxFaults
    /\ printed' = Append(printed, "ERROR")
    /\ idx' = Len(transformations) + 1
    /\ UNCHANGED <<original_path, transformed_path, threshold, original_img,
                   transformed_img, pc, best_match, best_similarity, results,
                   report, prev>>

\* One iteration whose try body raises while applying the transform or
\* scoring it: the except branch prints an error line and the loop goes on.
hypothesis_raises ==
    /\ pc = "sweep"
    /\ UNCHANGED outside_detect
    /\ idx <= Len(transformations)
    /\ (idx - 1) - Len(results) < MaxFaults
    /\ printed' = Append(printed, "ERROR")
    /\ idx' = idx + 1
    /\ UNCHANGED <<original_path, transformed_path, threshold, original_img,
                   transformed_img, pc, best_match, best_similarity, results,
                   report, prev>>

\* return best_match, best_similarity, results
detect_return ==
    /\ pc = "sweep"
    /\ UNCHANGED outside_detect
    /\ idx > Len(transformations)
    /\ pc' = "detected"
    /\ UNCHANGED <<original_path, transformed_path, threshold, original_img,
                   transformed_img, idx, best_match, best_similarity, results,
                   printed, report, prev>>

\* Mutant: the codes of the two quarter turns are exchanged.
mode_map_turns_exchanged ==
    [k \in {"ROTATE_CW", "ROTATE_CCW", "MIRROR_H", "MIRROR_V"} |->
        CASE k = "ROTATE_CW" -> 1
          [] k = "ROTATE_CCW" -> 0
          [] k = "MIRROR_H" -> 2
          [] k = "MIRROR_V" -> 3]

mode_map ==
    [k \in {"ROTATE_CW", "ROTATE_CCW", "MIRROR_H", "MIRROR_V"} |->
        CASE k = "ROTATE_CW" -> 0
          [] k = "ROTATE_CCW" -> 1
          [] k = "MIRROR_H" -> 2
          [] k = "MIRROR_V" -> 3]

\* The DETECTION RESULT block of compare().
print_result ==
    /\ pc = "detected"
    /\ UNCHANGED outside_detect
    /\ report' =
         IF Ge(best_similarity, Frac(threshold * 100, 100))
         THEN <<[confirmed |-> TRUE,
                 kind |-> best_match,
                 mode |-> IF best_match \in DOMAIN mode_map
                          THEN <<mode_map[best_match]>> ELSE Nil]>>
         ELSE <<[confirmed |-> FALSE, kind |-> best_match, mode |-> Nil]>>
    /\ pc' = "done"
    /\ UNCHANGED <<original_path, transformed_path, threshold, original_img,
                   transformed_img, idx, best_match, best_similarity, results,
                   printed, prev>>

\* Mutant: the exit status follows the confirmation against the threshold.
exit_status_of_confirmed(detected, confirmed) ==
    IF confirmed THEN 0 ELSE 1

\* The status main() exits with once compare() has returned detected.
exit_status(detected, confirmed) ==
    IF detected # "UNKNOWN" THEN 0 ELSE 1

\* main() after compare() has returned: sys.exit(0) or sys.exit(1).
main_exit ==
    /\ pc = "done"
    /\ exit_code' = <<exit_status(best_match, report[1].confirmed)>>
    /\ pc' = "exited"
    /\ UNCHANGED <<original_path, transformed_path, threshold, original_img,
                   transformed_img, idx, best_match, best_similarity, results,
                   printed, report, prev, diff, diff_file>>
    /\ UNCHANGED outside_comparator

\* main() when compare() raised FileNotFoundError: the error is printed and
\* the process exits with 1.
main_except ==
    /\ pc = "raised"
    /\ exit_code' = <<1>>
    /\ pc' = "exited"
    /\ UNCHANGED <<original_path, transformed_path, threshold, original_img,
                   transformed_img, idx, best_match, best_similarity, results,
                   printed, report, prev, diff, diff_file>>
    /\ UNCHANGED outside_comparator

\* main() run again on the same two files with another --threshold: a new
\* comparator is constructed; the verdict of the finished run is kept aside.
run_again ==
    /\ pc = "exited"
    /\ prev = Nil
    /\ \E t \in Thresholds \ {threshold} :
         threshold' = t
    /\ prev' = <<[threshold |-> threshold, best_match |-> best_match,
                  best_similarity |-> best_similarity, results |-> results,
                  confirmed |-> report[1].confirmed,
                  exit_code |-> exit_code[1]]>>
    /\ original_img' = Nil
    /\ transformed_img' = Nil
    /\ pc' = "constructed"
    /\ idx' = 0
    /\ best_match' = None
    /\ best_similarity' = Unbound
    /\ results' = <<>>
    /\ printed' = <<>>
    /\ report' = Nil
    /\ diff' = Nil
    /\ diff_file' = Nil
    /\ exit_code' = Nil
    /\ UNCHANGED <<original_path, transformed_path>>
    /\ UNCHANGED outside_comparator

Next ==
    \/ load_images
    \/ detect_begin
    \/ try_hypothesis
    \/ detect_return
    \/ print_result
    \/ main_exit

NextFault ==
    \/ Next
    \/ hypothesis_raises

NextAgain ==
    \/ Next
    \/ run_again

\* Runs in which no try body raises.
Spec == Init /\ [][Next]_vars
\* Runs with the default threshold in which a try body may raise.
InitFault == Init /\ threshold = 95
SpecFault == InitFault /\ [][NextFault]_vars
\* Two runs on the same files with different thresholds.
SpecAgain == Init /\ [][NextAgain]_vars

(***************************** files that do not load **********************)
InitLoad ==
    /\ original_path \in Matrices \cup {Unreadable}
    /\ transformed_path \in Matrices \cup {Unreadable}
    /\ threshold \in Thresholds
    /\ original_img = Nil
    /\ transformed_img = Nil
    /\ pc = "constructed"
    /\ idx = 0
    /\ best_match = None
    /\ best_similarity = Unbound
    /\ results = <<>>
    /\ printed = <<>>
    /\ report = Nil
    /\ prev = Nil
    /\ diff = Nil
    /\ diff_file = Nil
    /\ exit_code = Nil
    /\ work = Nil
    /\ applied = <<>>
    /\ line = <<>>
    /\ data = <<>>
    /\ warnings = <<>>
    /\ width = 0
    /\ height = 0

NextLoad ==
    \/ Next
    \/ load_images_raises
    \/ main_except

\* Runs of main() on files of which either may fail to load.
SpecLoad == InitLoad /\ [][NextLoad]_vars

(***************************** the difference map **************************)
\* np.abs(a.astype(np.int16) - b.astype(np.int16)) for two uint8 arrays of
\* one shape: no difference of two bytes leaves the range of int16.
abs_diff(a, b) ==
    [y \in 1..Height(a) |->
        [x \in 1..Width(a) |->
            IF a[y][x] >= b[y][x] THEN a[y][x] - b[y][x] ELSE b[y][x] - a[y][x]]]

\* np.clip(d * 5, 0, 255).astype(np.uint8)
amplified(d) ==
    [y \in 1..Height(d) |->
        [x \in 1..Width(d) |->
            IF d[y][x] * 5 > 255 THEN 255
            ELSE IF d[y][x] * 5 < 0 THEN 0 ELSE d[y][x] * 5]]

\* Mutant: a difference of one gray level is not counted.
count_nonzero_above_one(d) ==
    Cardinality({p \in (1..Height(d)) \X (1..Width(d)) : d[p[1]][p[2]] > 1})

\* np.count_nonzero(d)
count_nonzero(d) ==
    Cardinality({p \in (1..Height(d)) \X (1..Width(d)) : d[p[1]][p[2]] # 0})

\* np.max(d)
np_max(d) ==
    CHOOSE m \in {d[p[1]][p[2]] : p \in (1..Height(d)) \X (1..Width(d))} :
        \A p \in (1..Height(d)) \X (1..Width(d)) : d[p[1]][p[2]] <= m

\* np.mean(d)
np_mean(d) == Frac(SumSeq(ravel(d)), size(d))

\* The line printed when the two shapes differ.
CannotCreate == "Cannot create difference map - different sizes"
\* The heading of the statistics printed otherwise.
Statistics == "Difference Statistics:"

\* visualize_difference(save_path), called once the DETECTION RESULT is
\* printed; save_path is None or the path of difference_map.png.
visualize_difference ==
    /\ pc = "done"
    /\ \E save_path \in BOOLEAN :
         IF shape(original_img) # shape(transformed_img)
         THEN /\ diff' = <<[message |-> CannotCreate, stats |-> Nil]>>
              /\ UNCHANGED diff_file
         ELSE LET d == abs_diff(original_img, transformed_img)
                  non_zero == count_nonzero(d)
                  total == size(d)
              IN  /\ diff_file' = IF save_path THEN amplified(d) ELSE diff_file
                  /\ diff' = <<[message |-> Statistics,
                                stats |-> <<[non_zero |-> non_zero,
                                             total |-> total,
                                             diff_percentage |->
                                                 Frac(non_zero * 100, total),
                                             max |-> np_max(d),
                                             mean |-> np_mean(d)]>>]>>
    /\ UNCHANGED <<original_path, transformed_path, threshold, original_img,
                   transformed_img, pc, idx, best_match, best_similarity,
                   results, printed, report, prev, exit_code>>
    /\ UNCHANGED outside_comparator

NextDiff ==
    \/ Next
    \/ visualize_difference

\* Runs that end with a call of visualize_difference.
SpecDiff == Init /\ [][NextDiff]_vars

(***************************** repeated calls ******************************)
\* detect_transformation called once more on the same comparator, after
\* compare() has printed its result: the verdict of the first call is kept
\* aside, the images stay loaded, the locals are bound anew by the call.
detect_again ==
    /\ pc = "done"
    /\ prev = Nil
    /\ prev' = <<[best_match |-> best_match,
                  best_similarity |-> best_similarity,
                  results |-> results]>>
    /\ pc' = "loaded"
    /\ UNCHANGED <<original_path, transformed_path, threshold, original_img,
                   transformed_img, idx, best_match, best_similarity, results,
                   printed, report, diff, diff_file, exit_code>>
    /\ UNCHANGED outside_comparator

NextCalls ==
    \/ Next
    \/ visualize_difference
    \/ detect_again

\* Runs in which detect_transformation is called twice on one comparator
\* constructed with the default threshold, with calls of
\* visualize_difference after either.
InitCalls == Init /\ threshold = 95
SpecCalls == InitCalls /\ [][NextCalls]_vars

(***************************** chains of transforms ************************)
\* A comparator whose original_img is loaded; the apply_* methods are then
\* called one on the result of the other, starting from original_img.
InitChain ==
    /\ original_path \in Matrices
    /\ original_img = original_path
    /\ work = original_path
    /\ applied = <<>>
    /\ pc = "chain"
    /\ transformed_path = Nil
    /\ transformed_img = Nil
    /\ threshold = 95
    /\ idx = 0
    /\ best_match = None
    /\ best_similarity = Unbound
    /\ results = <<>>
    /\ printed = <<>>
    /\ report = Nil
    /\ prev = Nil
    /\ diff = Nil
    /\ diff_file = Nil
    /\ exit_code = Nil
    /\ line = <<>>
    /\ data = <<>>
    /\ warnings = <<>>
    /\ width = 0
    /\ height = 0

\* One call of an entry of transformations on the array the chain holds.
apply_transform ==
    /\ pc = "chain"
    /\ Len(applied) < MaxChain
    /\ \E t \in 1..Len(transformations) :
         /\ work' = trans_func(transformations[t], work)
         /\ applied' = Append(applied, transformations[t])
    /\ UNCHANGED <<original_path, transformed_path, threshold, original_img,
                   transformed_img, pc, idx, best_match, best_similarity,
                   results, printed, report, prev, diff, diff_file, exit_code,
                   line, data, warnings, width, height>>

NextChain == apply_transform

\* Chains of at most MaxChain transforms applied to one loaded image.
SpecChain == InitChain /\ [][NextChain]_vars

(***************************** pixels2gray *********************************)
\* A string is a sequence of one-character strings.  The characters the
\* tokens of the input file are made of: a zero, a nonzero decimal digit,
\* the x of a hexadecimal prefix and a hexadecimal letter.
Chars == {"0", "9", "x", "F"}
Tokens == UNION {[1..n -> Chars] : n \in 1..MaxTokLen}
\* The token 9, which every reading of the input format accepts.
Nine == <<"9">>
\* The line of the input file, as re.split cuts it: one token, or one token
\* before or after a 9.
Lines ==
    {<<t>> : t \in Tokens} \cup {<<t, Nine>> : t \in Tokens}
        \cup {<<Nine, t>> : t \in Tokens}
\* The widths the converter is constructed with; the height is 1.
Widths == {1, 2}

Digits == <<"0", "1", "2", "3", "4", "5", "6", "7", "8", "9">>
HexDigits ==
    <<"0", "1", "2", "3", "4", "5", "6", "7", "8", "9",
      "a", "b", "c", "d", "e", "f">>
Uppercase == <<"A", "B", "C", "D", "E", "F", "X">>
Lowercase == <<"a", "b", "c", "d", "e", "f", "x">>

\* The 0-based place of character c in the sequence s of characters.
IndexOf(c, s) == (CHOOSE i \in 1..Len(s) : s[i] = c) - 1
Contains(s, c) == \E i \in 1..Len(s) : s[i] = c

\* str.lower()
lower(str) ==
    [i \in 1..Len(str) |->
        IF Contains(Uppercase, str[i])
        THEN Lowercase[IndexOf(str[i], Uppercase) + 1] ELSE str[i]]

\* str.lstrip(c)
RECURSIVE lstrip(_, _)
lstrip(str, c) ==
    IF str # <<>> /\ Head(str) = c THEN lstrip(Tail(str), c) ELSE str

\* str.rstrip(c)
RECURSIVE rstrip(_, _)
rstrip(str, c) ==
    IF str # <<>> /\ str[Len(str)] = c
    THEN rstrip(SubSeq(str, 1, Len(str) - 1), c) ELSE str

\* str.strip(), for strings whose only whitespace is the blank.
strip(str) == rstrip(lstrip(str, " "), " ")

\* str.startswith(prefix)
startswith(str, prefix) ==
    Len(str) >= Len(prefix) /\ SubSeq(str, 1, Len(prefix)) = prefix

\* The number the digits of str spell in the base of the digit sequence.
RECURSIVE value_of(_, _)
value_of(str, digits) ==
    IF str = <<>> THEN 0
    ELSE value_of(SubSeq(str, 1, Len(str) - 1), digits) * Len(digits)
             + IndexOf(str[Len(str)], digits)

\* int(str) and int(str, 16) for strings without sign, blank or underscore:
\* <<n>> for the integer n, Nil where int raises ValueError.
int(str, base) ==
    IF base = 10
    THEN IF str # <<>> /\ \A i \in 1..Len(str) : Contains(Digits, str[i])
         THEN <<value_of(str, Digits)>> ELSE Nil
    ELSE LET low == lower(str)
             body == IF startswith(low, <<"0", "x">>)
                     THEN SubSeq(low, 3, Len(low)) ELSE low
         IN  IF body # <<>> /\ \A i \in 1..Len(body) : Contains(HexDigits, body[i])
             THEN <<value_of(body, HexDigits)>> ELSE Nil

\* MatrixConverter.parse_value: <<n>> for the integer returned, Nil where
\* ValueError is raised.
parse_value(value_str) ==
    LET stripped == strip(value_str)
        trimmed == IF stripped # <<>> /\ stripped # <<"0">>
                   THEN (IF lstrip(stripped, "0") # <<>>
                         THEN lstrip(stripped, "0") ELSE <<"0">>)
                   ELSE stripped
    IN  IF int(trimmed, 10) # Nil
        THEN int(trimmed, 10)
        ELSE IF startswith(lower(trimmed), <<"0", "x">>)
             THEN int(trimmed, 16)
             ELSE Nil

\* The values the loop over the tokens of one line appends to data before
\* the line ends or a token raises ValueError.
RECURSIVE appended(_)
appended(values) ==
    IF values = <<>> \/ parse_value(Head(values)) = Nil THEN <<>>
    ELSE parse_value(Head(values)) \o appended(Tail(values))

\* After MatrixConverter.__init__ and validate_input: the file exists and
\* holds one line, nothing is read yet.
InitConvert ==
    /\ line \in Lines
    /\ width \in Widths
    /\ height = 1
    /\ data = <<>>
    /\ warnings = <<>>
    /\ pc = "converter"
    /\ original_path = Nil
    /\ transformed_path = Nil
    /\ threshold = 95
    /\ original_img = Nil
    /\ transformed_img = Nil
    /\ idx = 0
    /\ best_match = None
    /\ best_similarity = Unbound
    /\ results = <<>>
    /\ printed = <<>>
    /\ report = Nil
    /\ prev = Nil
    /\ diff = Nil
    /\ diff_file = Nil
    /\ exit_code = Nil
    /\ work = Nil
    /\ applied = <<>>

\* read_matrix over the line: the values of the tokens are appended to
\* data one by one; at the first token parse_value rejects, a warning is
\* printed and the rest of the line is left out.
read_line ==
    /\ pc = "converter"
    /\ data' = data \o appended(line)
    /\ warnings' = IF Len(appended(line)) < Len(line)
                   THEN Append(warnings, "Skipping invalid value")
                   ELSE warnings
    /\ pc' = "parsed"
    /\ UNCHANGED <<original_path, transformed_path, threshold, original_img,
                   transformed_img, idx, best_match, best_similarity, results,
                   printed, report, prev, diff, diff_file, exit_code, work,
                   applied, line, width, height>>

\* The end of read_matrix: the pixel count is compared with width * height;
\* a mismatch raises ValueError, otherwise the array is returned.
check_count ==
    /\ pc = "parsed"
    /\ pc' = IF Len(data) # width * height THEN "mismatch" ELSE "read"
    /\ UNCHANGED <<original_path, transformed_path, threshold, original_img,
                   transformed_img, idx, best_match, best_similarity, results,
                   printed, report, prev, diff, diff_file, exit_code, work,
                   applied, line, data, warnings, width, height>>

NextConvert ==
    \/ read_line
    \/ check_count

\* Runs of read_matrix on a file of one line.
SpecConvert == InitConvert /\ [][NextConvert]_vars

(***************************** properties **********************************)
\* The six transforms as the design states them, index by index (1-based):
\* candidate c is the transform of kind k of matrix m.
IsTransformOf(k, m, c) ==
    LET h == Height(m)
        w == Width(m)
    IN  CASE k = "IDENTICAL" -> c = m
          [] k = "ROTATE_CW" ->
               /\ shape(c) = <<w, h>>
               /\ \A y \in 1..h, x \in 1..w : c[x][h + 1 - y] = m[y][x]
          [] k = "ROTATE_CCW" ->
               /\ shape(c) = <<w, h>>
               /\ \A y \in 1..h, x \in 1..w : c[w + 1 - x][y] = m[y][x]
          [] k = "ROTATE_180" ->
               /\ shape(c) = <<h, w>>
               /\ \A y \in 1..h, x \in 1..w : c[h + 1 - y][w + 1 - x] = m[y][x]
          [] k = "MIRROR_H" ->
               /\ shape(c) = <<h, w>>
               /\ \A y \in 1..h, x \in 1..w : c[y][w + 1 - x] = m[y][x]
          [] k = "MIRROR_V" ->
               /\ shape(c) = <<h, w>>
               /\ \A y \in 1..h, x \in 1..w : c[h + 1 - y][x] = m[y][x]

\* The six kinds in the order of their declaration.
KindOrder ==
    <<"IDENTICAL", "ROTATE_CW", "ROTATE_CCW", "ROTATE_180", "MIRROR_H", "MIRROR_V">>

\* detect_transformation has returned and no hypothesis raised.
Returned == pc = "detected" /\ Len(results) = 6

\* Hypothesis t is not tied in score with a hypothesis declared before it.
NotTiedWithEarlier(t) == \A e \in 1..(t - 1) : results[e][2] # results[t][2]

\* C1: when the candidate is the transform T of the original and no kind
\* declared before T reaches the score of T, the detected kind is T (at 100).
C1_DetectsAppliedTransform ==
    Returned =>
        \A t \in 1..6 :
            (/\ IsTransformOf(KindOrder[t], original_img, transformed_img)
             /\ results[t][1] = KindOrder[t]
             /\ NotTiedWithEarlier(t))
            => (best_match = KindOrder[t] /\ best_similarity = Hundred)

\* C1 happens: the candidate is the vertical mirror of the original, no
\* earlier kind ties with it, and MIRROR_V is detected.
C1_Witness ==
    /\ Returned
    /\ IsTransformOf("MIRROR_V", original_img, transformed_img)
    /\ NotTiedWithEarlier(6)
    /\ best_match = "MIRROR_V"

\* C2: an image compared with itself is detected as IDENTICAL at 100,
\* whatever the threshold.
C2_SelfIsIdentical ==
    (Returned /\ transformed_img = original_img)
        => (best_match = "IDENTICAL" /\ best_similarity = Hundred)

\* C2 happens: an image that several transforms map to itself is compared
\* with itself under the strictest threshold.
C2_Witness ==
    /\ Returned
    /\ transformed_img = original_img
    /\ threshold = 100
    /\ results[6][2] = Hundred
    /\ best_match = "IDENTICAL"

\* Some hypothesis scored so far has a score above 0.
SomePositive == \E t \in 1..Len(results) : Gt(results[t][2], Zero)

\* Record t holds the greatest score recorded so far, and no record before
\* it holds that score.
FirstMax(t) ==
    /\ \A u \in 1..Len(results) : Ge(results[t][2], results[u][2])
    /\ \A e \in 1..(t - 1) : results[e][2] # results[t][2]

\* C3 as stated: the returned kind is always the first kind, in declaration
\* order, whose score is the maximum of the scores.
C3_FirstMaxAlways ==
    Returned => \E t \in 1..6 : FirstMax(t) /\ best_match = results[t][1]

\* C3 amended: the running best starts at UNKNOWN with score 0 and, after
\* each hypothesis, is the first record holding the greatest score so far
\* when that score is above 0, and still UNKNOWN with score 0 when every
\* score so far is 0.
C3_FirstPositiveMax ==
    (pc \in {"sweep", "detected"} /\ Len(results) = idx - 1) =>
        IF SomePositive
        THEN \E t \in 1..Len(results) :
                /\ FirstMax(t)
                /\ results[t][1] = KindOrder[t]
                /\ best_match = results[t][1]
                /\ best_similarity = results[t][2]
        ELSE best_match = "UNKNOWN" /\ best_similarity = Zero

\* C3 happens: two kinds tie at the greatest score, which is above 0 and
\* below 100, and the one declared first is returned.
C3_Witness ==
    /\ Returned
    /\ \E t \in 2..5 : \E u \in (t + 1)..6 :
          /\ FirstMax(t)
          /\ results[u][2] = results[t][2]
          /\ Gt(results[t][2], Zero)
          /\ results[t][2] # Hundred
          /\ best_match = results[t][1]

\* C4 as stated: once a hypothesis was scored, whatever its score, the
\* returned kind is one of the six transform kinds.
C4_ScoredIsNeverUnknown ==
    (pc = "detected" /\ Len(results) >= 1) => best_match # "UNKNOWN"

\* C4 amended: the returned kind is UNKNOWN exactly when no hypothesis
\* scored above 0; otherwise it is the kind of a record, whether or not its
\* score reaches the threshold.
C4_UnknownIffNothingPositive ==
    pc = "detected" =>
        /\ best_match = "UNKNOWN" <=> ~SomePositive
        /\ SomePositive =>
              \E t \in 1..Len(results) :
                  best_match = results[t][1] /\ best_match \in
                     {KindOrder[k] : k \in 1..6}

\* C4 happens: five hypotheses were scored, all at 0, one raised, and
\* UNKNOWN is returned.
C4_Witness ==
    /\ pc = "detected"
    /\ Len(results) = 5
    /\ ~SomePositive
    /\ best_match = "UNKNOWN"

\* The kinds of the records, in the order of the records.
KindsOf(rs) == [i \in 1..Len(rs) |-> rs[i][1]]

\* C5: a second run on the same two images with another threshold returns
\* the same kind, the same score and the same records as the first; the
\* score returned is the greatest recorded score; the threshold decides
\* only whether the verdict is reported as confirmed.
C5_ThresholdDoesNotSteerSearch ==
    /\ (pc \in {"detected", "done"} /\ Len(prev) = 1) =>
          /\ best_match = prev[1].best_match
          /\ best_similarity = prev[1].best_similarity
          /\ results = prev[1].results
    /\ pc \in {"detected", "done"} =>
          /\ \A t \in 1..Len(results) : Ge(best_similarity, results[t][2])
          /\ \E t \in 1..Len(results) : best_similarity = results[t][2]
    /\ pc = "done" =>
          /\ report[1].kind = best_match
          /\ report[1].confirmed <=>
                (best_similarity.num >= threshold * best_similarity.den)

\* C5 happens: the first run confirmed its verdict, the second run, with a
\* stricter threshold, returns the same verdict and does not confirm it.
C5_Witness ==
    /\ pc = "done"
    /\ Len(prev) = 1
    /\ prev[1].threshold # threshold
    /\ prev[1].confirmed
    /\ ~report[1].confirmed
    /\ best_match = prev[1].best_match
    /\ best_match # "UNKNOWN"

\* C6 as stated: a hypothesis that raised has a record with a zero score.
C6_FailureRecordedAsZero ==
    pc = "detected" =>
        \A i \in 1..Len(printed) :
            printed[i] = "ERROR" =>
                \E r \in 1..Len(results) : results[r] = <<KindOrder[i], Zero>>

\* C6 amended: a hypothesis that raised has no record at all (an error line
\* is printed for it) and leaves the running best alone; the loop goes on,
\* every hypothesis declared after it is applied and scored and has its
\* record, and the call returns a verdict.
C6_FailureSkippedSweepGoesOn ==
    /\ pc = "detected" =>
          /\ Len(printed) = 6
          /\ \A i \in 1..6 :
                IF printed[i] = "ERROR"
                THEN /\ \A r \in 1..Len(results) : results[r][1] # KindOrder[i]
                     /\ best_match # KindOrder[i]
                ELSE \E r \in 1..Len(results) :
                        /\ results[r][1] = KindOrder[i]
                        /\ results[r][2] =
                              calculate_similarity(
                                  trans_func(KindOrder[i], original_img),
                                  transformed_img)
          /\ \A r \in 1..Len(results) : Ge(best_similarity, results[r][2])
    /\ (pc = "sweep" /\ Len(printed) >= 1 /\ printed[Len(printed)] = "ERROR") =>
          (idx = Len(printed) + 1 /\ idx <= Len(KindOrder) + 1)

\* C6 happens: the second hypothesis raised, the five others were scored
\* and a kind declared after it is returned at 100.
C6_Witness ==
    /\ pc = "detected"
    /\ printed[2] = "ERROR"
    /\ Len(results) = 5
    /\ best_match = "ROTATE_180"
    /\ best_similarity = Hundred

\* C7 as stated: after every run the records are those of the six kinds,
\* one each, in declaration order.
C7_AlwaysSixRecords ==
    pc = "detected" => KindsOf(results) = KindOrder

\* The kinds whose hypothesis did not raise, in declaration order.
RECURSIVE ScoredKinds(_)
ScoredKinds(i) ==
    IF i = 0 THEN <<>>
    ELSE IF printed[i] = "ERROR" THEN ScoredKinds(i - 1)
    ELSE Append(ScoredKinds(i - 1), KindOrder[i])

\* C7 amended: after every run the records are those of the kinds whose
\* hypothesis did not raise, one each, in declaration order, never one for
\* UNKNOWN; they are the six kinds when no hypothesis raised.
C7_OneRecordPerScoredKind ==
    pc = "detected" =>
        /\ KindsOf(results) = ScoredKinds(6)
        /\ \A r \in 1..Len(results) : results[r][1] # "UNKNOWN"
        /\ (\A i \in 1..6 : printed[i] # "ERROR") => KindsOf(results) = KindOrder

\* C7 happens: the fourth hypothesis raised and five records are returned.
C7_Witness ==
    /\ pc = "detected"
    /\ printed[4] = "ERROR"
    /\ KindsOf(results) =
          <<"IDENTICAL", "ROTATE_CW", "ROTATE_CCW", "MIRROR_H", "MIRROR_V">>

\* The shape the design gives the transform of kind k of matrix m.
ShapeAfter(k, m) ==
    IF k \in {"ROTATE_CW", "ROTATE_CCW"}
    THEN <<Width(m), Height(m)>>
    ELSE <<Height(m), Width(m)>>

\* C8: a hypothesis whose transformed matrix differs from the candidate in
\* height or in width scores 0.
C8_ShapeMismatchScoresZero ==
    pc \in {"sweep", "detected"} =>
        \A t \in 1..Len(results) :
            ShapeAfter(results[t][1], original_img) # shape(transformed_img)
                => results[t][2] = Zero

\* C8 happens: the candidate has the transposed shape, and the pixel
\* count, of the original; the hypotheses that keep the shape score 0 and
\* a quarter turn scores 100.
C8_Witness ==
    /\ Returned
    /\ shape(original_img) = <<1, 2>>
    /\ shape(transformed_img) = <<2, 1>>
    /\ original_img[1][1] = transformed_img[1][1]
    /\ results[1][2] = Zero
    /\ results[4][2] = Zero
    /\ results[2][2] = Hundred

\* The positions at which two matrices of one shape hold equal values.
EqualPositions(a, b) ==
    {p \in (1..Height(a)) \X (1..Width(a)) : a[p[1]][p[2]] = b[p[1]][p[2]]}

\* C9: for matrices of one shape the score is the number of positions
\* holding equal values over the number of positions, times 100; it lies
\* in 0..100, is 100 exactly when all positions are equal and 0 exactly
\* when none is; values one apart are not equal.
C9_ScoreIsExactMatchPercentage ==
    pc \in {"sweep", "detected"} =>
        \A t \in 1..Len(results) :
            LET a == trans_func(results[t][1], original_img)
                b == transformed_img
                s == results[t][2]
            IN  shape(a) = shape(b) =>
                    /\ s.den > 0
                    /\ s.num * size(a) = 100 * Cardinality(EqualPositions(a, b)) * s.den
                    /\ Ge(s, Zero) /\ Ge(Hundred, s)
                    /\ s = Hundred <=> a = b
                    /\ s = Zero <=> EqualPositions(a, b) = {}

\* C9 happens: two 2x2 images differ by 1 in one pixel and are equal in
\* the three others, and the identity hypothesis scores 75.
C9_Witness ==
    /\ Returned
    /\ shape(original_img) = <<2, 2>>
    /\ shape(transformed_img) = <<2, 2>>
    /\ original_img[1][1] - transformed_img[1][1] = 1
    /\ Cardinality(EqualPositions(original_img, transformed_img)) = 3
    /\ results[1][2] = Frac(75, 1)

\* C10: a matrix scored against itself scores 100.
C10_SelfSimilarityIsHundred ==
    (pc \in {"sweep", "detected"} /\ Len(results) >= 1
        /\ results[1][1] = "IDENTICAL" /\ transformed_img = original_img)
        => results[1][2] = Hundred

\* C10 happens: the 4x4 image is scored against itself.
C10_Witness ==
    /\ pc = "sweep"
    /\ Len(results) = 1
    /\ original_img = Scenario
    /\ transformed_img = Scenario
    /\ results[1] = <<"IDENTICAL", Hundred>>

\* The chain applied kind a and then kind b to original_img.
Chained(a, b) == pc = "chain" /\ applied = <<a, b>>

\* C11: a clockwise turn followed by a counter-clockwise turn, and a
\* counter-clockwise turn followed by a clockwise turn, give back the
\* matrix they started from; so do two half turns, two horizontal mirrors
\* and two vertical mirrors.  This holds for one pixel, one row, one column
\* and square matrices alike.
C11_RoundTripsRestore ==
    /\ Chained("ROTATE_CW", "ROTATE_CCW") => work = original_img
    /\ Chained("ROTATE_CCW", "ROTATE_CW") => work = original_img
    /\ Chained("ROTATE_180", "ROTATE_180") => work = original_img
    /\ Chained("MIRROR_H", "MIRROR_H") => work = original_img
    /\ Chained("MIRROR_V", "MIRROR_V") => work = original_img

\* C11 happens: a row of two different pixels was turned clockwise and then
\* counter-clockwise, and is the row it was.
C11_Witness ==
    /\ Chained("ROTATE_CW", "ROTATE_CCW")
    /\ shape(original_img) = <<1, 2>>
    /\ original_img[1][1] # original_img[1][2]
    /\ work = original_img

\* C12: the clockwise turn of an h x w matrix is w x h and holds at row x,
\* column h-1-y (0-based) the pixel the input holds at row y, column x; the
\* 4x4 image 1..16 becomes [[13,9,5,1],[14,10,6,2],[15,11,7,3],[16,12,8,4]].
C12_ClockwiseTurnIndexLaw ==
    (pc = "chain" /\ applied = <<"ROTATE_CW">>) =>
        /\ Height(work) = Width(original_img)
        /\ Width(work) = Height(original_img)
        /\ \A y \in 1..Height(original_img), x \in 1..Width(original_img) :
               work[x][Height(original_img) + 1 - y] = original_img[y][x]
        /\ original_img = Scenario =>
               work = <<<<13, 9, 5, 1>>, <<14, 10, 6, 2>>,
                        <<15, 11, 7, 3>>, <<16, 12, 8, 4>>>>

\* C12 happens: the 4x4 image 1..16 was turned clockwise once.
C12_Witness ==
    /\ pc = "chain"
    /\ applied = <<"ROTATE_CW">>
    /\ original_img = Scenario
    /\ work[1] = <<13, 9, 5, 1>>

\* Token t is 0x followed by hexadecimal digits, as the input format writes
\* a hexadecimal value.
IsHexToken(t) ==
    /\ Len(t) >= 3
    /\ t[1] = "0"
    /\ t[2] = "x"
    /\ \A i \in 3..Len(t) : t[i] \in {"0", "9", "F"}

\* The integer a token of zeros, nines and Fs after 0x stands for.
RECURSIVE HexValue(_)
HexValue(t) ==
    IF Len(t) <= 2 THEN 0
    ELSE HexValue(SubSeq(t, 1, Len(t) - 1)) * 16
             + (CASE t[Len(t)] = "0" -> 0
                  [] t[Len(t)] = "9" -> 9
                  [] t[Len(t)] = "F" -> 15)

\* C15: a token 0x followed by hexadecimal digits is read as its integer
\* value and added to the pixel data: once a line of such tokens is read,
\* data holds their values in order and no warning was printed.
C15_HexTokenIsRead ==
    (pc \in {"parsed", "read", "mismatch"}
        /\ \A i \in 1..Len(line) : IsHexToken(line[i]))
        => /\ Len(data) = Len(line)
           /\ \A i \in 1..Len(line) : data[i] = HexValue(line[i])
           /\ warnings = <<>>

\* One of the two files cannot be loaded.
SomeUnreadable == original_path = Unreadable \/ transformed_path = Unreadable

\* C14: when one of the two images cannot be loaded, the run goes from the
\* construction of the comparator to the raised error and to the exit of
\* main with status 1 only: no hypothesis is applied or scored, no best
\* match is held and no detection result is reported.
C14_LoadFailureFailsFast ==
    SomeUnreadable =>
        /\ pc \in {"constructed", "raised", "exited"}
        /\ idx = 0
        /\ results = <<>>
        /\ printed = <<>>
        /\ best_match = None
        /\ best_similarity = Unbound
        /\ report = Nil
        /\ pc = "exited" => exit_code = <<1>>

\* C14 happens: the original was loaded, the transformed file was not, and
\* the error has left compare() with nothing scored.
C14_Witness ==
    /\ pc = "raised"
    /\ original_path = Scenario
    /\ transformed_path = Unreadable
    /\ original_img = Scenario
    /\ transformed_img = Nil
    /\ results = <<>>
    /\ report = Nil

\* The best score reaches the threshold (hundredths are percent).
BestReachesThreshold ==
    best_similarity.num >= threshold * best_similarity.den

\* C16: the result block holds a mode code only when the best score
\* reaches the threshold and the detected kind is a quarter turn or a
\* mirror: 0 for ROTATE_CW, 1 for ROTATE_CCW, 2 for MIRROR_H, 3 for
\* MIRROR_V; IDENTICAL, ROTATE_180, UNKNOWN and every best score below the
\* threshold get none.
C16_ModeCodeOnlyForConfirmedMatch ==
    pc \in {"done", "exited"} =>
        /\ report[1].kind = best_match
        /\ report[1].confirmed = BestReachesThreshold
        /\ report[1].mode =
              IF ~BestReachesThreshold THEN Nil
              ELSE CASE best_match = "ROTATE_CW" -> <<0>>
                     [] best_match = "ROTATE_CCW" -> <<1>>
                     [] best_match = "MIRROR_H" -> <<2>>
                     [] best_match = "MIRROR_V" -> <<3>>
                     [] best_match \in {"IDENTICAL", "ROTATE_180", "UNKNOWN"} -> Nil

\* C16 happens: the counter-clockwise turn of the 4x4 image is detected at
\* 100 with the default threshold and mode 1 is reported.
C16_Witness ==
    /\ pc = "done"
    /\ threshold = 95
    /\ original_img = Scenario
    /\ transformed_img = ScenarioCCW
    /\ report[1].confirmed
    /\ report[1].kind = "ROTATE_CCW"
    /\ report[1].mode = <<1>>

\* C17: from load_images on, through the calls of detect_transformation
\* and visualize_difference, original_img and transformed_img are the
\* matrices the two files decode to; and the second call of
\* detect_transformation on the comparator returns the kind, the score
\* and the results the first call returned.
C17_InputsUntouchedVerdictRepeats ==
    /\ pc \in {"loaded", "sweep", "detected", "done", "exited"} =>
           /\ original_img = original_path
           /\ transformed_img = transformed_path
    /\ (pc = "detected" /\ prev # Nil) =>
           /\ best_match = prev[1].best_match
           /\ best_similarity = prev[1].best_similarity
           /\ results = prev[1].results

\* C17 happens: after a first detection and a saved difference map, the
\* second detection on the 4x4 image and its clockwise turn has returned
\* ROTATE_CW again, and both images are as loaded.
C17_Witness ==
    /\ pc = "detected"
    /\ prev # Nil
    /\ diff # Nil
    /\ diff_file # Nil
    /\ original_path = Scenario
    /\ transformed_path = ScenarioCW
    /\ original_img = Scenario
    /\ transformed_img = ScenarioCW
    /\ prev[1].best_match = "ROTATE_CW"
    /\ best_match = "ROTATE_CW"

\* C18: once both images are loaded and main has exited, the status is 0
\* exactly when some hypothesis scored above 0 and 1 otherwise, whatever
\* the threshold: a run on the same files with another threshold exits
\* with the same status.
C18_ExitStatusIgnoresThreshold ==
    pc = "exited" =>
        /\ exit_code = (IF \E t \in 1..Len(results) : results[t][2].num > 0
                        THEN <<0>> ELSE <<1>>)
        /\ exit_code = <<1>> <=> best_match = "UNKNOWN"
        /\ prev # Nil => exit_code[1] = prev[1].exit_code

\* C18 happens: the best score is 50, below the threshold 1.0, no clear
\* transformation is reported and main exits with 0, as the run with the
\* threshold 0 on the same files did.
C18_Witness ==
    /\ pc = "exited"
    /\ threshold = 100
    /\ best_similarity = Frac(50, 1)
    /\ ~report[1].confirmed
    /\ exit_code = <<0>>
    /\ prev # Nil
    /\ prev[1].threshold = 0
    /\ prev[1].confirmed
    /\ prev[1].exit_code = 0

\* The positions at which the two loaded matrices differ by a nonzero
\* amount.
DifferingPositions ==
    {p \in (1..Height(original_img)) \X (1..Width(original_img)) :
        original_img[p[1]][p[2]] - transformed_img[p[1]][p[2]] # 0}

\* C13: after visualize_difference, when the two shapes differ the message
\* is the one of the not-applicable case, no statistics are computed and no
\* map is written; when the shapes are equal the number of different pixels
\* is the number of positions with a nonzero absolute difference, and it is
\* 0 exactly when the two matrices are equal at every pixel.
C13_DifferenceReport ==
    (pc = "done" /\ diff # Nil) =>
        IF shape(original_img) # shape(transformed_img)
        THEN /\ diff[1].message = CannotCreate
             /\ diff[1].stats = Nil
             /\ diff_file = Nil
        ELSE /\ Len(diff[1].stats) = 1
             /\ diff[1].stats[1].non_zero = Cardinality(DifferingPositions)
             /\ diff[1].stats[1].non_zero = 0 <=> original_img = transformed_img

\* C13 happens: two 2x2 images differ in exactly one pixel, by one gray
\* level, and the statistics count one different pixel of four.
C13_Witness ==
    /\ pc = "done"
    /\ diff # Nil
    /\ shape(original_img) = <<2, 2>>
    /\ shape(transformed_img) = <<2, 2>>
    /\ Cardinality(DifferingPositions) = 1
    /\ diff[1].stats[1].non_zero = 1
    /\ diff[1].stats[1].total = 4
    /\ diff_file # Nil

=============================================================================
